---- MODULE Spec2Model ----
(***************************************************************************)
(* Client-side behavioural tracking of the estate-agent website:           *)
(* consent store, identity & session manager, transport, tracker facade    *)
(* and the search store-and-forward module.                                *)
(*                                                                         *)
(* Conventions.  null / undefined of the source is NoId (0) for a UUID or  *)
(* a timestamp and Null (the empty tuple) for an object; a present object  *)
(* o is the one-element tuple <<o>>.  UUIDs are drawn from a counter, so   *)
(* two generated UUIDs never collide.  The clock is Date.now() in ms.      *)
(***************************************************************************)
EXTENDS Integers, Sequences, FiniteSets, TLC

\* ---------------------------------------------------------------- bounds
MaxIds == 3            \* UUIDs generated over one behaviour
MaxPageViews == 2      \* cap of a session record's page_views counter
MaxPages == 1          \* page loads after the first one
MaxSessionGaps == 1    \* clock steps of the session specification
MaxDurationGaps == 1   \* clock steps of the duration specification
MaxSearchGaps == 1     \* clock steps of the search specification
MaxBlogSetups == 2     \* setupBlogDurationTracking calls that arm listeners
MaxFavPending == 1     \* toggleFavourite calls in flight
MaxTabs == 2            \* tabs sharing the persisted storage
MaxTabCalls == 2        \* getSessionId calls of the tabs on one session
MaxInitGaps == 2        \* clock advances between the calls of init
MaxInflight == 2       \* sendEvent calls whose promise is followed
MaxEnquirySetups == 2  \* setupEnquiryFormTracking calls on one page
MaxScrolls == 5        \* scroll positions observed after a setup
MaxFloorGaps == 1      \* spans of 5 s covered by the clock of the duration-floor specification

\* ------------------------------------------------------ program constants
SESSION_TIMEOUT_MS == 30 * 60 * 1000
STALE_MS == 30000
PROPERTY_MIN_SECONDS == 3
BLOG_MIN_SECONDS == 5

NoId == 0
Null == <<>>
Epoch == 1000          \* Date.now() at the first page load (never 0)

VARIABLES
  consent,         \* localStorage 'stratos_cookie_consent': "absent" | "false" | "true" (analytics)
  lsVisitor,       \* localStorage 'sr_visitor'
  lsSession,       \* localStorage 'sr_session' (JSON of the session record)
  tempVisitorId,   \* module variable of session/index.ts
  tempSession,     \* module variable of session/index.ts
  quotaExceeded,   \* localStorage.setItem throws (quota exceeded)
  nextId,          \* next UUID of generateUUID
  now,             \* Date.now()
  page,            \* number of page loads so far
  pendingSearch,   \* sessionStorage 'stratos_pending_search'
  tracker,         \* window.StratosTracker: Null or <<fields of the instance>>
  propTracking,    \* module state of property.ts: armed duration handler
  blogHandlers,    \* duration listeners armed by setupBlogDurationTracking
  enquiryHandlers, \* closures of setupEnquiryFormTracking for the page's enquiry form
  setups,          \* setupAutomaticTracking calls made by the last step
  inflight,        \* the sendEvent calls whose continuation is followed
  favPending,      \* toggleFavourite calls awaiting the API response
  lastOp,          \* observation: the operation that ran last
  ret,             \* observation: what it returned
  out,             \* observation: network calls it issued, in order
  vids,            \* observation: visitor ids getVisitorId returned during it
  cleared,         \* observation: clearAllTrackingData ran during it
  pageVid,         \* history: visitor id last returned in this page load
  lastVid,         \* history: the same, forgotten when identity is reset (see BreaksStability)
  seenAnon,        \* history: ids returned without consent in earlier page loads (C9)
  curAnon,         \* history: ids returned without consent in this page load (C9)
  run,             \* history: the current run of consecutive getSessionId calls (C5)
  revoked,         \* history: a revoking notification reached the tracker, no grant since (C3)
  tabs,            \* two-tab view: per tab, where its session update stands
  race,            \* history: the session updates made by the tabs on one existing session (C22)
  overtaken,       \* history: per pending toggleFavourite, was a later event handed over first (C21)
  enqSent,         \* history: 'enquiry_started' events sent for the form (C15)
  depthLog,        \* history: scroll events, furthest position and 'blog_scroll_depth' events per milestone in this page (C27)
  scrollSeq,       \* history: scroll positions observed since the last scroll-tracking setup (C14)
  durSent,         \* history: duration events sent by the armed listeners since the last setup (C12)
  overwritten,     \* history: the search whose pending record the last storeSearchForTracking replaced (C24)
  searchInput      \* history: argument and time of the last storeSearchForTracking (C10)

storeVars == <<consent, lsVisitor, lsSession, tempVisitorId, tempSession, nextId, quotaExceeded>>
favVars == <<favPending, overtaken>>
searchHist == <<searchInput, overwritten>>
scrollHist == <<scrollSeq, depthLog>>
tabVars == <<tabs, race>>
trackerVars == <<tracker, propTracking, blogHandlers, favVars, enquiryHandlers, inflight, tabVars>>
obsVars == <<lastOp, ret, out, vids, cleared, setups>>
histVars == <<pageVid, lastVid, seenAnon, curAnon, run, revoked, durSent, scrollHist, enqSent, searchHist>>
enqVars == <<enquiryHandlers, enqSent>>
\* what a call into the session module or the tracker leaves alone
restVars == <<now, page, pendingSearch, searchHist, scrollHist, enqVars, inflight, tabVars>>
vars == <<storeVars, now, page, pendingSearch, trackerVars, obsVars, histVars>>

\* ------------------------------------------------------------------------
\* The persisted store and the module memory as one value, threaded through
\* the functions of session/index.ts.  Every function returns [st, ret].
\* ------------------------------------------------------------------------
Store ==
  [consent |-> consent, lsVisitor |-> lsVisitor, lsSession |-> lsSession,
   tempVisitorId |-> tempVisitorId, tempSession |-> tempSession, nextId |-> nextId,
   quota |-> quotaExceeded,
   vlog |-> {}]   \* ghost: the ids getVisitorId returns while the step runs

SetStore(s) ==
  /\ consent' = s.consent
  /\ lsVisitor' = s.lsVisitor
  /\ lsSession' = s.lsSession
  /\ tempVisitorId' = s.tempVisitorId
  /\ tempSession' = s.tempSession
  /\ nextId' = s.nextId
  /\ quotaExceeded' = s.quota

\* new Date().toISOString() keeps the millisecond; new Date(iso).getTime() reads it back
toISOString(t) == [iso |-> t]
getTime(d) == d.iso

hasAnalyticsConsent(s) == s.consent = "true"

generateUUID(s) == [st |-> [s EXCEPT !.nextId = @ + 1], ret |-> s.nextId]

Returned(r) == [st |-> [r.st EXCEPT !.vlog = @ \cup {r.ret}], ret |-> r.ret]

\* variant: a grant forgets the id handed out before it
getVisitorId_noPromote(s) ==
  Returned(
    IF ~hasAnalyticsConsent(s)
    THEN IF s.tempVisitorId = NoId
         THEN LET g == generateUUID(s)
              IN [st |-> [g.st EXCEPT !.tempVisitorId = g.ret], ret |-> g.ret]
         ELSE [st |-> s, ret |-> s.tempVisitorId]
    ELSE IF s.lsVisitor = NoId
         THEN LET g == generateUUID(s)
              IN [st |-> [g.st EXCEPT !.lsVisitor = g.ret], ret |-> g.ret]
         ELSE [st |-> s, ret |-> s.lsVisitor])

getVisitorId(s) ==
  Returned(
    IF ~hasAnalyticsConsent(s)
    THEN IF s.tempVisitorId = NoId
         THEN LET g == generateUUID(s)
              IN [st |-> [g.st EXCEPT !.tempVisitorId = g.ret], ret |-> g.ret]
         ELSE [st |-> s, ret |-> s.tempVisitorId]
    ELSE IF s.lsVisitor = NoId
         THEN IF s.tempVisitorId # NoId
              THEN IF s.quota
                   THEN [st |-> s, ret |-> s.tempVisitorId]
                   ELSE [st |-> [s EXCEPT !.lsVisitor = s.tempVisitorId],
                         ret |-> s.tempVisitorId]
              ELSE LET g == generateUUID(s)
                   IN IF s.quota
                      THEN \* setItem throws: the catch block generates another id
                           LET h == generateUUID(g.st)
                           IN [st |-> [h.st EXCEPT !.tempVisitorId = h.ret], ret |-> h.ret]
                      ELSE [st |-> [g.st EXCEPT !.lsVisitor = g.ret], ret |-> g.ret]
         ELSE [st |-> s, ret |-> s.lsVisitor])

getStoredSession(s) ==
  IF ~hasAnalyticsConsent(s) THEN s.tempSession ELSE s.lsSession

\* variant: the session is persisted whatever the consent record says
saveSession_always(s, session) ==
  [s EXCEPT !.lsSession = <<session>>, !.tempSession = <<session>>]

saveSession(s, session) ==
  IF ~hasAnalyticsConsent(s)
  THEN [s EXCEPT !.tempSession = <<session>>]
  ELSE IF s.quota
  THEN s   \* setItem throws before 'tempSession = session'; the catch block logs
  ELSE [s EXCEPT !.lsSession = <<session>>, !.tempSession = <<session>>]

\* variant: a session idle for exactly the timeout is already expired
isSessionExpired_atLimit(session, t) ==
  t - getTime(session.last_activity_at) >= SESSION_TIMEOUT_MS

isSessionExpired(session, t) ==
  t - getTime(session.last_activity_at) > SESSION_TIMEOUT_MS

createNewSession(s, t) ==
  LET v == getVisitorId(s)
      g == generateUUID(v.st)
      session == [session_id |-> g.ret, visitor_id |-> v.ret,
                  created_at |-> toISOString(t), last_activity_at |-> toISOString(t),
                  page_views |-> 0]
  IN [st |-> saveSession(g.st, session), ret |-> session]

\* variant: activity is refreshed but the view is not counted
updateSessionActivity_noCount(s, session, t) ==
  LET upd == [session EXCEPT !.last_activity_at = toISOString(t)]
  IN [st |-> saveSession(s, upd), ret |-> upd]

updateSessionActivity(s, session, t) ==
  LET upd == [session EXCEPT !.last_activity_at = toISOString(t), !.page_views = @ + 1]
  IN [st |-> saveSession(s, upd), ret |-> upd]

getSession(s, t) ==
  LET session == getStoredSession(s)
  IN IF session = Null THEN createNewSession(s, t)
     ELSE IF isSessionExpired(session[1], t) THEN createNewSession(s, t)
     ELSE updateSessionActivity(s, session[1], t)

getSessionId(s, t) ==
  LET session == getStoredSession(s)
  IN IF session = Null
     THEN LET c == createNewSession(s, t) IN [st |-> c.st, ret |-> c.ret.session_id]
     ELSE IF isSessionExpired(session[1], t)
     THEN LET c == createNewSession(s, t) IN [st |-> c.st, ret |-> c.ret.session_id]
     ELSE LET u == updateSessionActivity(s, session[1], t)
          IN [st |-> u.st, ret |-> session[1].session_id]

clearAllTrackingData(s) ==
  [s EXCEPT !.tempVisitorId = NoId, !.tempSession = Null,
            !.lsSession = Null, !.lsVisitor = NoId]

initSession(s, t) ==
  IF ~hasAnalyticsConsent(s) THEN s ELSE getSession(s, t).st

\* ------------------------------------------------------------------------
\* Bounds on what a step may produce
\* ------------------------------------------------------------------------
PageViewsOf(o) == IF o = Null THEN 0 ELSE o[1].page_views

WithinBounds(s) ==
  /\ s.nextId <= MaxIds + 1
  /\ PageViewsOf(s.lsSession) <= MaxPageViews
  /\ PageViewsOf(s.tempSession) <= MaxPageViews

\* ------------------------------------------------------------------------
\* Transport (core/api.ts).  A network call is recorded when it is issued:
\* fetch and navigator.sendBeacon are called before the first suspension.
\* ------------------------------------------------------------------------
NoData == [none |-> TRUE]

buildEventPayload(s, t, eventType, eventData) ==
  LET sid == getSessionId(s, t)
      vid == getVisitorId(sid.st)
  IN [st |-> vid.st,
      ret |-> [event_type |-> eventType, session_id |-> sid.ret,
               visitor_id |-> vid.ret, event_data |-> eventData]]

NetCall(via, endpoint, payload) ==
  [via |-> via, endpoint |-> endpoint, payload |-> payload]

\* a call in progress: the store, the tracker instance, the network calls issued
\* so far and whether tracking data was cleared
sendEvent(c, payload) ==
  [c EXCEPT !.out = Append(@, NetCall("fetch", "track-event", payload))]

sendBeacon(c, t, eventType, eventData, hasBeacon) ==
  LET sid == getSessionId(c.st, t)
      vid == getVisitorId(sid.st)
      payload == [event_type |-> eventType, session_id |-> sid.ret,
                  visitor_id |-> vid.ret, event_data |-> eventData]
      c1 == [c EXCEPT !.st = vid.st]
  IN IF hasBeacon
     THEN [c1 EXCEPT !.out = Append(@, NetCall("beacon", "track-event", payload))]
     ELSE sendEvent(c1, payload)

\* the shape shared by the modules' fetch-based functions (trackPageView,
\* trackPropertyView, trackBlogView, trackPhoneClick, ...): build, then send
buildAndSend(c, t, eventType, eventData) ==
  LET b == buildEventPayload(c.st, t, eventType, eventData)
  IN sendEvent([c EXCEPT !.st = b.st], b.ret)

\* ------------------------------------------------------------------------
\* Tracker facade (core/StratosTracker.ts)
\* ------------------------------------------------------------------------
NewTrackerFields(s) ==
  [trackingEnabled |-> TRUE,
   consentGiven |-> hasAnalyticsConsent(s),
   previousConsent |-> hasAnalyticsConsent(s),   \* closure of setupConsentListener
   isInitialized |-> FALSE,
   pageLoadTime |-> 0, sessionStartTime |-> 0,
   propertyViewStartTime |-> 0, blogViewStartTime |-> 0, maxScrollDepth |-> 0]

canTrack(tr) == tr.trackingEnabled /\ tr.consentGiven

\* setupAutomaticTracking: one more call of pageTracking.setupPageExitTracking
setupAutomaticTracking(c) == [c EXCEPT !.setups = @ + 1]

\* variant: init without the 'Already initialized' return
init_again(c, t) ==
  IF ~c.tr.consentGiven THEN c
  ELSE setupAutomaticTracking(
         [c EXCEPT !.tr.pageLoadTime = t, !.tr.sessionStartTime = t,
                   !.tr.isInitialized = TRUE])

init(c, t) ==
  IF ~c.tr.consentGiven THEN c
  ELSE IF c.tr.isInitialized THEN c
  ELSE setupAutomaticTracking(
         [c EXCEPT !.tr.pageLoadTime = t, !.tr.sessionStartTime = t,
                   !.tr.isInitialized = TRUE])

trackPageView(c, t) ==
  IF ~canTrack(c.tr) THEN c ELSE buildAndSend(c, t, "page_view", NoData)

onConsentGranted(c, t) ==
  IF ~c.tr.previousConsent
  THEN LET c1 == [c EXCEPT !.tr.consentGiven = TRUE, !.tr.previousConsent = TRUE]
           c2 == [c1 EXCEPT !.st = initSession(c1.st, t)]
       IN trackPageView(init(c2, t), t)
  ELSE c

\* variant: the revocation callback without the reset of isInitialized
onConsentRevoked_keepInitialized(c) ==
  IF c.tr.previousConsent
  THEN [c EXCEPT !.tr.consentGiven = FALSE, !.tr.previousConsent = FALSE,
                 !.st = clearAllTrackingData(@), !.clr = TRUE]
  ELSE c

onConsentRevoked(c) ==
  IF c.tr.previousConsent
  THEN [c EXCEPT !.tr.consentGiven = FALSE, !.tr.previousConsent = FALSE,
                 !.st = clearAllTrackingData(@), !.clr = TRUE,
                 !.tr.isInitialized = FALSE]
  ELSE c

\* the 'cookieConsentUpdated' listener registered by the constructor
setupConsentListener(c, t, analytics) ==
  IF analytics THEN onConsentGranted(c, t) ELSE onConsentRevoked(c)

setConsent(c, t, hasConsent) ==
  LET previousConsent == c.tr.consentGiven
      c1 == [c EXCEPT !.tr.consentGiven = hasConsent]
  IN IF hasConsent /\ ~previousConsent
     THEN init([c1 EXCEPT !.st = initSession(c1.st, t)], t)
     ELSE IF ~hasConsent
     THEN [c1 EXCEPT !.st = clearAllTrackingData(@), !.clr = TRUE,
                     !.tr.isInitialized = FALSE]
     ELSE c1

\* ------------------------------------------------------------------------
\* Steps.  Every step records what ran (lastOp), what it returned (ret),
\* the network calls it issued (out) and keeps the history variables.
\* ------------------------------------------------------------------------
NoRun == [n |-> 0, pv0 |-> 0, sid |-> NoId, same |-> TRUE]
Pick(S) == CHOOSE v \in S : TRUE

\* what ends the promise of a stable visitor id within a page: a clear of the
\* tracking data, the consent record leaving analytics=true, or a grant that
\* finds a visitor id already persisted
BreaksStability(s, clr) ==
  \/ clr
  \/ consent = "true" /\ s.consent # "true"
  \/ consent # "true" /\ s.consent = "true" /\ lsVisitor # NoId

\* the consent record changes with no tracker on the page to handle it
Unhandled(op, s) ==
  /\ s.consent # consent
  /\ \/ op = "consentChangedElsewhere"
     \/ op = "consentUpdated" /\ tracker = Null

NoDurSent == [property |-> 0, blog |-> 0]

\* the duration events the armed listeners have sent since they were set up
NextDurSent(op, o) ==
  IF op = "setupPropertyDurationTracking" THEN [durSent EXCEPT !.property = 0]
  ELSE IF op = "setupBlogDurationTracking" THEN [durSent EXCEPT !.blog = 0]
  ELSE IF op = "propertyDurationHandler" THEN [durSent EXCEPT !.property = @ + Len(o)]
  ELSE IF op = "blogDurationHandler" THEN [durSent EXCEPT !.blog = @ + Len(o)]
  ELSE durSent

\* s and o are bound to the values of the step's results, computed once
FinishStep(op, store, r, calls, clr, rn, n) ==
  \E s \in {store}, o \in {calls} :
      /\ WithinBounds(s)
      /\ SetStore(s)
      /\ lastOp' = op
      /\ ret' = r
      /\ out' = o
      /\ vids' = s.vlog
      /\ cleared' = clr
      /\ pageVid' = IF s.vlog # {} THEN Pick(s.vlog)
                    ELSE IF Unhandled(op, s) THEN NoId ELSE pageVid
      /\ lastVid' = IF s.vlog # {} THEN Pick(s.vlog)
                    ELSE IF BreaksStability(s, clr) THEN NoId ELSE lastVid
      /\ curAnon' = IF s.consent # "true" THEN curAnon \cup s.vlog ELSE curAnon
      /\ seenAnon' = seenAnon
      /\ run' = rn
      /\ durSent' = NextDurSent(op, o)
      /\ setups' = n

FinishRun(op, s, r, o, clr, rn) == FinishStep(op, s, r, o, clr, rn, 0)

Finish(op, s, r, o, clr) == FinishRun(op, s, r, o, clr, NoRun)

Ctx == [st |-> Store, tr |-> tracker[1], out |-> <<>>, clr |-> FALSE, setups |-> 0]

\* a step of the tracker: the instance changes, the armed listeners do not
FinishCtx(op, ctx, r) ==
  \E c \in {ctx} :
    /\ FinishStep(op, c.st, r, c.out, c.clr, NoRun, c.setups)
    /\ tracker' = <<c.tr>>

\* ---- the page calls the session module directly ------------------------
GetVisitorId ==
  /\ LET g == getVisitorId(Store) IN Finish("getVisitorId", g.st, g.ret, <<>>, FALSE)
  /\ UNCHANGED <<restVars, trackerVars, revoked>>

\* the run of consecutive getSessionId calls on an existing, unexpired session
IdleGapOK(session, t) == t - session.last_activity_at.iso <= 30 * 60 * 1000

NextRun(pre, r) ==
  IF pre # Null /\ IdleGapOK(pre[1], now)
  THEN IF run.n = 0
       THEN [n |-> 1, pv0 |-> pre[1].page_views, sid |-> pre[1].session_id,
             same |-> (r = pre[1].session_id)]
       ELSE [run EXCEPT !.n = @ + 1, !.same = @ /\ (r = run.sid)]
  ELSE NoRun

GetSessionId ==
  /\ quotaExceeded => run.n < MaxPageViews   \* calls that count nothing are capped too
  /\ LET g == getSessionId(Store, now)
     IN FinishRun("getSessionId", g.st, g.ret, <<>>, FALSE,
                  NextRun(getStoredSession(Store), g.ret))
  /\ UNCHANGED <<restVars, trackerVars, revoked>>

InitSession ==
  /\ Finish("initSession", initSession(Store, now), 0, <<>>, FALSE)
  /\ UNCHANGED <<restVars, trackerVars, revoked>>

\* ---- the consent banner (external): writes the record, then dispatches
\* 'cookieConsentUpdated'; the tracker of the page, if any, hears it -------
ConsentValue(analytics) == IF analytics THEN "true" ELSE "false"

ConsentUpdated ==
  \E analytics \in BOOLEAN :
    LET s == [Store EXCEPT !.consent = ConsentValue(analytics)]
    IN /\ IF tracker = Null
          THEN Finish("consentUpdated", s, 0, <<>>, FALSE) /\ tracker' = tracker
          ELSE FinishCtx("consentUpdated",
                         setupConsentListener([Ctx EXCEPT !.st = s], now, analytics), 0)
       /\ revoked' = (tracker # Null /\ ~analytics)
       /\ UNCHANGED <<restVars, propTracking, blogHandlers, favVars>>

\* the record is rewritten where this page is not notified (another tab)
ConsentChangedElsewhere ==
  /\ \E v \in {"absent", "false", "true"} :
       /\ v # consent
       /\ Finish("consentChangedElsewhere", [Store EXCEPT !.consent = v], 0, <<>>, FALSE)
  /\ UNCHANGED <<restVars, trackerVars, revoked>>

\* ---- several tabs of the site share localStorage; each has its own module
\* memory.  getSessionId in a tab reads the record (getStoredSession), decides
\* and prepares the record to save; the write of saveSession is a later step,
\* so that the other tabs can run in between. -------------------------------
Tabs == 1..MaxTabs

IdleTab == [pc |-> "idle", pending |-> Null, tempSession |-> Null, returned |-> NoId]
NoTabs == [k \in Tabs |-> IdleTab]
NoRace == [calls |-> 0, n |-> 0, pv0 |-> 0, sid |-> NoId, same |-> TRUE]

\* the store as tab k sees it: shared storage, its own memory
TabStore(k) == [Store EXCEPT !.tempSession = tabs[k].tempSession]

\* getSessionId up to, and without, the storage write of saveSession
TabGetSessionId(k) ==
  /\ hasAnalyticsConsent(Store)
  /\ tabs[k].pc = "idle"
  /\ race.calls < MaxTabCalls
  /\ LET g == getSessionId(TabStore(k), now)
         existing == lsSession # Null /\ ~isSessionExpired(lsSession[1], now)
     IN /\ PageViewsOf(g.st.lsSession) <= MaxPageViews
        /\ tabs' = [tabs EXCEPT ![k] = [pc |-> "save", pending |-> g.st.lsSession,
                                        tempSession |-> @.tempSession, returned |-> g.ret]]
        /\ Finish("tabGetSessionId",
                  [g.st EXCEPT !.lsSession = lsSession, !.tempSession = tempSession],
                  g.ret, <<>>, FALSE)
        /\ race' = IF ~existing THEN NoRace
                   ELSE IF race.sid # NoId THEN [race EXCEPT !.calls = @ + 1]
                   ELSE IF \A j \in Tabs : tabs[j].pc = "idle"
                   THEN [calls |-> 1, n |-> 0, pv0 |-> lsSession[1].page_views,
                         sid |-> lsSession[1].session_id, same |-> TRUE]
                   ELSE NoRace
  /\ UNCHANGED <<now, page, pendingSearch, searchHist, scrollHist, enqVars, inflight,
                 tracker, propTracking, blogHandlers, favVars, revoked>>

\* the storage write of saveSession, and the return of getSessionId
TabSaveSession(k) ==
  /\ tabs[k].pc = "save"
  /\ LET s == saveSession(TabStore(k), tabs[k].pending[1])
     IN /\ tabs' = [tabs EXCEPT ![k] = [IdleTab EXCEPT !.tempSession = s.tempSession]]
        /\ Finish("tabSaveSession", [s EXCEPT !.tempSession = tempSession],
                  tabs[k].returned, <<>>, FALSE)
  /\ race' = IF race.sid = NoId THEN race
             ELSE [race EXCEPT !.n = @ + 1, !.same = @ /\ (tabs[k].returned = race.sid)]
  /\ UNCHANGED <<now, page, pendingSearch, searchHist, scrollHist, enqVars, inflight,
                 tracker, propTracking, blogHandlers, favVars, revoked>>

\* ---- the storage runs full: from now on localStorage.setItem throws --------
StorageFills ==
  /\ ~quotaExceeded
  /\ Finish("storageFills", [Store EXCEPT !.quota = TRUE], 0, <<>>, FALSE)
  /\ UNCHANGED <<restVars, trackerVars, revoked>>

\* ---- a new page load: module memory, the tracker instance, its listeners
\* and the pending continuations are gone; storage stays -------------------
NoPropTracking == [current |-> "none", armed |-> FALSE]

\* modules/blog.ts, setupScrollDepthTracking: the milestones array
Milestones == {25, 50, 75, 100}
\* a page in which nothing was scrolled and no milestone event was sent
NoDepthLog == [n |-> 0, max |-> 0, sent |-> [ms \in Milestones |-> 0]]

PageLoad ==
  /\ page < MaxPages
  /\ page' = page + 1
  /\ tempVisitorId' = NoId
  /\ tempSession' = Null
  /\ tracker' = Null
  /\ propTracking' = NoPropTracking
  /\ blogHandlers' = <<>>
  /\ favPending' = 0
  /\ overtaken' = <<>>
  /\ tabs' = NoTabs
  /\ race' = NoRace
  /\ lastOp' = "pageLoad" /\ ret' = 0 /\ out' = <<>> /\ vids' = {} /\ cleared' = FALSE
  /\ setups' = 0
  /\ pageVid' = NoId /\ lastVid' = NoId
  /\ seenAnon' = seenAnon \cup curAnon
  /\ curAnon' = {}
  /\ run' = NoRun
  /\ revoked' = FALSE
  /\ durSent' = NoDurSent
  /\ scrollSeq' = <<>>
  /\ depthLog' = NoDepthLog
  /\ enquiryHandlers' = <<>>
  /\ inflight' = <<>>
  /\ enqSent' = 0
  /\ UNCHANGED <<consent, lsVisitor, lsSession, nextId, quotaExceeded, now, pendingSearch, searchHist>>

\* ---- the clock ------------------------------------------------------------
Tick(deltas, horizon) ==
  /\ \E d \in deltas : now + d <= horizon /\ now' = now + d
  /\ lastOp' = "tick" /\ ret' = 0 /\ out' = <<>> /\ vids' = {} /\ cleared' = FALSE
  /\ setups' = 0
  /\ UNCHANGED <<storeVars, page, pendingSearch, trackerVars, histVars>>

TickSession ==
  Tick({SESSION_TIMEOUT_MS, SESSION_TIMEOUT_MS + 1},
       Epoch + MaxSessionGaps * (SESSION_TIMEOUT_MS + 1))

\* ------------------------------------------------------------------------
\* Domain modules called by the facade and by the listeners they arm
\* ------------------------------------------------------------------------
PropertyIds == {"p1", "p2"}
ArticleId == "a1"

Seconds(t, startTime) == (t - startTime) \div 1000

\* modules/property.ts
\* variant: a view of exactly 3 s is still suppressed
propertyTracking_trackPropertyDuration_floorExclusive(c, t, propertyId, startTime, hasBeacon) ==
  IF startTime = 0 THEN c
  ELSE IF Seconds(t, startTime) <= PROPERTY_MIN_SECONDS THEN c
  ELSE sendBeacon(c, t, "property_view",
                  [property_id |-> propertyId,
                   view_duration_seconds |-> Seconds(t, startTime)], hasBeacon)

propertyTracking_trackPropertyDuration(c, t, propertyId, startTime, hasBeacon) ==
  IF startTime = 0 THEN c
  ELSE IF Seconds(t, startTime) < PROPERTY_MIN_SECONDS THEN c
  ELSE sendBeacon(c, t, "property_view",
                  [property_id |-> propertyId,
                   view_duration_seconds |-> Seconds(t, startTime)], hasBeacon)

\* modules/blog.ts
blogTracking_trackBlogDuration(c, t, articleId, startTime, maxScrollDepth, hasBeacon) ==
  IF startTime = 0 THEN c
  ELSE IF Seconds(t, startTime) < BLOG_MIN_SECONDS THEN c
  ELSE sendBeacon(c, t, "blog_read_time",
                  [article_id |-> articleId,
                   read_duration_seconds |-> Seconds(t, startTime),
                   max_scroll_depth |-> maxScrollDepth], hasBeacon)

\* modules/page.ts
pageTracking_trackSessionEnd(c, t, sessionStartTime, hasBeacon) ==
  sendBeacon(c, t, "session_end",
             [duration_seconds |-> IF sessionStartTime # 0
                                   THEN Seconds(t, sessionStartTime) ELSE 0],
             hasBeacon)

\* modules/favourites.ts: up to the await of the API call
favouritesModule_toggleFavourite(c, t, propertyId) ==
  LET vid == getVisitorId(c.st)
      sid == getSessionId(vid.st, t)
  IN [c EXCEPT !.st = sid.st,
               !.out = Append(@, NetCall("fetch", "toggle-favourite",
                                         [visitor_id |-> vid.ret, session_id |-> sid.ret,
                                          property_id |-> propertyId]))]

favouritesModule_getFavourites(c) ==
  LET vid == getVisitorId(c.st)
  IN [c EXCEPT !.st = vid.st,
               !.out = Append(@, NetCall("fetch", "get-favourites",
                                         [visitor_id |-> vid.ret]))]

\* ---- facade methods ------------------------------------------------------
trackEvent(c, t, eventType, eventData) ==
  IF ~canTrack(c.tr) THEN c ELSE buildAndSend(c, t, eventType, eventData)

trackSearch(c, t, hasBeacon) ==
  IF ~canTrack(c.tr) THEN c
  ELSE sendBeacon(c, t, "search", [search_params |-> "q"], hasBeacon)

trackPropertyView(c, t, propertyId) ==
  IF ~canTrack(c.tr) THEN c
  ELSE buildAndSend([c EXCEPT !.tr.propertyViewStartTime = t], t,
                    "property_view", [property_id |-> propertyId])

trackPropertyDuration(c, t, propertyId, hasBeacon) ==
  IF ~c.tr.trackingEnabled \/ c.tr.propertyViewStartTime = 0 THEN c
  ELSE propertyTracking_trackPropertyDuration(c, t, propertyId,
                                              c.tr.propertyViewStartTime, hasBeacon)

trackBlogView(c, t, articleId) ==
  IF ~canTrack(c.tr) THEN c
  ELSE buildAndSend([c EXCEPT !.tr.blogViewStartTime = t, !.tr.maxScrollDepth = 0], t,
                    "blog_view", [article_id |-> articleId])

trackBlogDuration(c, t, articleId, hasBeacon) ==
  IF ~c.tr.trackingEnabled \/ c.tr.blogViewStartTime = 0 THEN c
  ELSE blogTracking_trackBlogDuration(c, t, articleId, c.tr.blogViewStartTime,
                                      c.tr.maxScrollDepth, hasBeacon)

trackSessionEnd(c, t, hasBeacon) ==
  IF ~c.tr.trackingEnabled THEN c
  ELSE pageTracking_trackSessionEnd(c, t, c.tr.sessionStartTime, hasBeacon)

toggleFavourite(c, t, propertyId) ==
  IF ~canTrack(c.tr) THEN c ELSE favouritesModule_toggleFavourite(c, t, propertyId)

getFavourites(c) ==
  IF ~canTrack(c.tr) THEN c ELSE favouritesModule_getFavourites(c)

\* ---- steps of the facade --------------------------------------------------
KeepRest == UNCHANGED <<restVars, propTracking, blogHandlers, favVars, revoked>>

NewTracker ==
  /\ tracker = Null
  /\ Finish("new", Store, 0, <<>>, FALSE)
  /\ tracker' = <<NewTrackerFields(Store)>>
  /\ KeepRest

TrackerInit ==
  /\ tracker # Null
  /\ FinishCtx("init", init(Ctx, now), 0)
  /\ KeepRest

SetConsent ==
  /\ tracker # Null
  /\ \E hasConsent \in BOOLEAN :
       /\ FinishCtx("setConsent", setConsent(Ctx, now, hasConsent), 0)
       /\ revoked' = (revoked /\ ~hasConsent)
  /\ UNCHANGED <<restVars, propTracking, blogHandlers, favVars>>

SetTrackingEnabled ==
  /\ tracker # Null
  /\ \E enabled \in BOOLEAN :
       FinishCtx("setTrackingEnabled", [Ctx EXCEPT !.tr.trackingEnabled = enabled], 0)
  /\ KeepRest

TrackPageView ==
  /\ tracker # Null
  /\ FinishCtx("trackPageView", trackPageView(Ctx, now), 0)
  /\ KeepRest

\* a pending toggleFavourite is overtaken when an event is handed over
OvertakenBy(o) == IF o # <<>> THEN [i \in 1..Len(overtaken) |-> TRUE] ELSE overtaken

TrackEvent ==
  /\ tracker # Null
  /\ LET c == trackEvent(Ctx, now, "custom", NoData)
     IN /\ FinishCtx("trackEvent", c, 0)
        /\ overtaken' = OvertakenBy(c.out)
  /\ UNCHANGED <<restVars, propTracking, blogHandlers, favPending, revoked>>

TrackSearch ==
  /\ tracker # Null
  /\ \E hasBeacon \in BOOLEAN : FinishCtx("trackSearch", trackSearch(Ctx, now, hasBeacon), 0)
  /\ KeepRest

TrackPropertyView ==
  /\ tracker # Null
  /\ FinishCtx("trackPropertyView", trackPropertyView(Ctx, now, "p1"), 0)
  /\ KeepRest

TrackPropertyDuration ==
  /\ tracker # Null
  /\ \E hasBeacon \in BOOLEAN :
       FinishCtx("trackPropertyDuration", trackPropertyDuration(Ctx, now, "p1", hasBeacon), 0)
  /\ KeepRest

\* facade: no guard; module: one armed handler, re-armed only for another property
SetupPropertyDurationTracking ==
  /\ tracker # Null
  /\ \E propertyId \in PropertyIds :
       /\ FinishCtx("setupPropertyDurationTracking",
                    [Ctx EXCEPT !.tr.propertyViewStartTime = now], 0)
       /\ propTracking' = IF propTracking.current = propertyId THEN propTracking
                          ELSE [current |-> propertyId, armed |-> TRUE]
  /\ UNCHANGED <<restVars, blogHandlers, favVars, revoked>>

\* beforeunload, pagehide or visibilitychange to hidden reaches the armed handler,
\* which calls the module function, not the facade method
PropertyDurationHandler ==
  /\ tracker # Null
  /\ propTracking.armed
  /\ \E hasBeacon \in BOOLEAN :
       FinishCtx("propertyDurationHandler",
                 propertyTracking_trackPropertyDuration(
                   Ctx, now, propTracking.current, tracker[1].propertyViewStartTime,
                   hasBeacon), 0)
  /\ KeepRest

TrackBlogView ==
  /\ tracker # Null
  /\ FinishCtx("trackBlogView", trackBlogView(Ctx, now, ArticleId), 0)
  /\ KeepRest

TrackBlogDuration ==
  /\ tracker # Null
  /\ \E hasBeacon \in BOOLEAN :
       FinishCtx("trackBlogDuration", trackBlogDuration(Ctx, now, ArticleId, hasBeacon), 0)
  /\ KeepRest

\* facade: no guard; every call adds one more set of listeners, each with the
\* scroll-depth closure of its own setupScrollDepthTracking
SetupBlogDurationTracking ==
  /\ tracker # Null
  /\ Len(blogHandlers) < MaxBlogSetups
  /\ FinishCtx("setupBlogDurationTracking",
               [Ctx EXCEPT !.tr.blogViewStartTime = now, !.tr.maxScrollDepth = 0], 0)
  /\ blogHandlers' = Append(blogHandlers, [articleId |-> ArticleId, maxScrollDepth |-> 0])
  /\ scrollSeq' = <<>>
  /\ UNCHANGED <<depthLog, now, page, tabVars, inflight, pendingSearch, searchHist, enqVars, propTracking, favVars, revoked>>

\* modules/blog.ts, the 'scroll' listener of setupScrollDepthTracking: h is the
\* closure of one setup call, scrollPercent the position it computes
ScrollPercents == {10, 30, 40, 60, 100}

trackScroll(c, t, h, scrollPercent) ==
  LET found == {ms \in Milestones : scrollPercent >= ms /\ h.maxScrollDepth < ms}
      \* milestones.find(...): the first match of [25, 50, 75, 100]
      currentMilestone ==
        IF found = {} THEN 0 ELSE CHOOSE ms \in found : \A o \in found : ms <= o
  IN IF currentMilestone # 0 /\ scrollPercent > h.maxScrollDepth
     THEN [c |-> buildAndSend(c, t, "blog_scroll_depth",
                              [article_id |-> h.articleId,
                               scroll_depth |-> currentMilestone]),
           h |-> [h EXCEPT !.maxScrollDepth = scrollPercent]]
     ELSE IF scrollPercent > h.maxScrollDepth
     THEN [c |-> c, h |-> [h EXCEPT !.maxScrollDepth = scrollPercent]]
     ELSE [c |-> c, h |-> h]

\* one 'scroll' event runs the listener of every setup call, in order
RECURSIVE RunScrollHandlers(_, _, _, _)
RunScrollHandlers(c, t, handlers, scrollPercent) ==
  IF handlers = <<>> THEN [c |-> c, handlers |-> <<>>]
  ELSE LET r == trackScroll(c, t, Head(handlers), scrollPercent)
           rest == RunScrollHandlers(r.c, t, Tail(handlers), scrollPercent)
       IN [c |-> rest.c, handlers |-> <<r.h>> \o rest.handlers]

\* the page's scroll history after one more 'scroll' event at scrollPercent
\* whose listeners handed the calls o to the network
LogDepths(log, o, scrollPercent) ==
  [n |-> log.n + 1,
   max |-> IF scrollPercent > log.max THEN scrollPercent ELSE log.max,
   sent |-> [ms \in Milestones |->
              log.sent[ms]
              + Cardinality({i \in 1..Len(o) :
                               o[i].payload.event_data.scroll_depth = ms})]]

Scroll ==
  /\ tracker # Null
  /\ blogHandlers # <<>>
  /\ depthLog.n < MaxScrolls
  /\ \E scrollPercent \in ScrollPercents :
       \E r \in {RunScrollHandlers(Ctx, now, blogHandlers, scrollPercent)} :
          /\ FinishCtx("scroll", r.c, 0)
          /\ blogHandlers' = r.handlers
          /\ scrollSeq' = Append(scrollSeq, scrollPercent)
          /\ depthLog' = LogDepths(depthLog, out', scrollPercent)
  /\ UNCHANGED <<now, page, tabVars, inflight, pendingSearch, searchHist, enqVars, propTracking, favVars, revoked>>

\* one page-exit event runs every armed listener in the order it was added; its
\* scroll getter copies the closure's depth into the instance before it is read
RECURSIVE RunBlogHandlers(_, _, _, _)
RunBlogHandlers(c, t, handlers, hasBeacon) ==
  IF handlers = <<>> THEN c
  ELSE LET h == Head(handlers)
           c1 == [c EXCEPT !.tr.maxScrollDepth = h.maxScrollDepth]
       IN RunBlogHandlers(
            blogTracking_trackBlogDuration(c1, t, h.articleId, c1.tr.blogViewStartTime,
                                           c1.tr.maxScrollDepth, hasBeacon),
            t, Tail(handlers), hasBeacon)

BlogDurationHandler ==
  /\ tracker # Null
  /\ blogHandlers # <<>>
  /\ \E hasBeacon \in BOOLEAN :
       FinishCtx("blogDurationHandler", RunBlogHandlers(Ctx, now, blogHandlers, hasBeacon), 0)
  /\ KeepRest

\* modules/enquiry.ts: every setup call gives the form a closure flag
\* (hasStartedTracking) and one 'focus' listener per field, each removed after
\* its first run ({ once: true })
FormFields == {"name", "email"}

enquiryTracking_setupEnquiryFormTracking(handlers) ==
  Append(handlers, [hasStartedTracking |-> FALSE, listening |-> FormFields])

setupEnquiryFormTracking(c, handlers) ==
  IF ~canTrack(c.tr) THEN handlers
  ELSE enquiryTracking_setupEnquiryFormTracking(handlers)

SetupEnquiryFormTracking ==
  /\ tracker # Null
  /\ Len(enquiryHandlers) < MaxEnquirySetups
  /\ FinishCtx("setupEnquiryFormTracking", Ctx, 0)
  /\ enquiryHandlers' = setupEnquiryFormTracking(Ctx, enquiryHandlers)
  /\ UNCHANGED <<now, page, tabVars, inflight, pendingSearch, searchHist, scrollHist, enqSent,
                 propTracking, blogHandlers, favVars, revoked>>

\* a 'focus' event on one field runs that field's listener of every setup call
RECURSIVE RunFocusListeners(_, _, _, _)
RunFocusListeners(c, t, handlers, field) ==
  IF handlers = <<>> THEN [c |-> c, handlers |-> <<>>]
  ELSE LET h == Head(handlers)
           fires == field \in h.listening /\ ~h.hasStartedTracking
           h1 == IF field \in h.listening
                 THEN [hasStartedTracking |-> TRUE, listening |-> h.listening \ {field}]
                 ELSE h
           c1 == IF fires
                 THEN buildAndSend(c, t, "enquiry_started", [enquiry_type |-> "general"])
                 ELSE c
           rest == RunFocusListeners(c1, t, Tail(handlers), field)
       IN [c |-> rest.c, handlers |-> <<h1>> \o rest.handlers]

EnquiryFocus ==
  /\ tracker # Null
  /\ enquiryHandlers # <<>>
  /\ \E field \in FormFields :
       \E r \in {RunFocusListeners(Ctx, now, enquiryHandlers, field)} :
          /\ FinishCtx("enquiryFocus", r.c, 0)
          /\ enquiryHandlers' = r.handlers
          /\ enqSent' = enqSent + Len(r.c.out)
  /\ UNCHANGED <<now, page, tabVars, inflight, pendingSearch, searchHist, scrollHist,
                 propTracking, blogHandlers, favVars, revoked>>

\* core/api.ts, sendEvent after its first suspension.  A call is followed as
\* [stage, response, body, requests, promise]: fetch has been called once when
\* the function suspends at 'await fetch(...)'.
NewSendEventCall ==
  [stage |-> "fetch", response |-> "none", body |-> "none",
   requests |-> 1, promise |-> "pending"]

\* variant: a failed parse of the response body escapes the function
sendEvent_afterJson_uncaught(call, parses) ==
  IF parses
  THEN [call EXCEPT !.stage = "done", !.body = "parsed", !.promise = "resolved"]
  ELSE [call EXCEPT !.stage = "done", !.body = "unparseable", !.promise = "rejected"]

\* 'await fetch' settles: a rejection lands in the catch block, a response
\* (ok or not) is read with 'await response.json()'
sendEvent_afterFetch(call, outcome) ==
  IF outcome = "rejected"
  THEN [call EXCEPT !.stage = "done", !.response = outcome, !.promise = "resolved"]
  ELSE [call EXCEPT !.stage = "json", !.response = outcome]

\* 'await response.json()' settles: a parsed body is logged (and the function
\* returns), a failed parse lands in the catch block
sendEvent_afterJson(call, parses) ==
  IF parses
  THEN [call EXCEPT !.stage = "done", !.body = "parsed", !.promise = "resolved"]
  ELSE [call EXCEPT !.stage = "done", !.body = "unparseable", !.promise = "resolved"]

\* tracker.trackEvent(...) with the promise of its sendEvent call followed
TrackEventAwaited ==
  /\ tracker # Null
  /\ LET c == trackEvent(Ctx, now, "custom", NoData)
     IN /\ Len(inflight) + Len(c.out) <= MaxInflight
        /\ FinishCtx("trackEvent", c, 0)
        /\ inflight' = inflight \o [i \in 1..Len(c.out) |-> NewSendEventCall]
  /\ UNCHANGED <<now, page, tabVars, pendingSearch, searchHist, scrollHist, enqVars,
                 propTracking, blogHandlers, favVars, revoked>>

FetchSettles ==
  /\ \E i \in 1..Len(inflight), outcome \in {"rejected", "ok", "notOk"} :
       /\ inflight[i].stage = "fetch"
       /\ inflight' = [inflight EXCEPT ![i] = sendEvent_afterFetch(@, outcome)]
  /\ Finish("fetchSettles", Store, 0, <<>>, FALSE)
  /\ UNCHANGED <<now, page, tabVars, pendingSearch, searchHist, scrollHist, enqVars,
                 tracker, propTracking, blogHandlers, favVars, revoked>>

JsonSettles ==
  /\ \E i \in 1..Len(inflight), parses \in BOOLEAN :
       /\ inflight[i].stage = "json"
       /\ inflight' = [inflight EXCEPT ![i] = sendEvent_afterJson(@, parses)]
  /\ Finish("jsonSettles", Store, 0, <<>>, FALSE)
  /\ UNCHANGED <<now, page, tabVars, pendingSearch, searchHist, scrollHist, enqVars,
                 tracker, propTracking, blogHandlers, favVars, revoked>>

TrackSessionEnd ==
  /\ tracker # Null
  /\ \E hasBeacon \in BOOLEAN :
       FinishCtx("trackSessionEnd", trackSessionEnd(Ctx, now, hasBeacon), 0)
  /\ KeepRest

ToggleFavourite ==
  /\ tracker # Null
  /\ favPending < MaxFavPending
  /\ LET c == toggleFavourite(Ctx, now, "p1")
     IN /\ FinishCtx("toggleFavourite", c, 0)
        /\ favPending' = IF c.out # <<>> THEN favPending + 1 ELSE favPending
        /\ overtaken' = IF c.out # <<>> THEN Append(overtaken, FALSE) ELSE overtaken
  /\ UNCHANGED <<restVars, propTracking, blogHandlers, revoked>>

\* the API answers: on a 2xx answer the analytics event is built and sent
ToggleFavouriteResponse ==
  /\ favPending > 0
  /\ tracker # Null
  /\ \E i \in 1..Len(overtaken), ok \in BOOLEAN, is_favourited \in BOOLEAN :
       LET c == IF ok
                THEN buildAndSend(Ctx, now,
                                  IF is_favourited THEN "property_favourited"
                                  ELSE "property_unfavourited",
                                  [property_id |-> "p1"])
                ELSE Ctx
       IN /\ FinishCtx("toggleFavouriteResponse", c, i)
          /\ overtaken' = [j \in 1..(Len(overtaken) - 1) |->
                             IF j < i THEN (overtaken[j] \/ c.out # <<>>)
                             ELSE overtaken[j + 1]]
  /\ favPending' = favPending - 1
  /\ UNCHANGED <<restVars, propTracking, blogHandlers, revoked>>

GetFavourites ==
  /\ tracker # Null
  /\ FinishCtx("getFavourites", getFavourites(Ctx), 0)
  /\ KeepRest

TickDuration ==
  Tick({BLOG_MIN_SECONDS * 1000}, Epoch + MaxDurationGaps * BLOG_MIN_SECONDS * 1000)

\* ------------------------------------------------------------------------
\* Search store-and-forward (modules/search.ts)
\* ------------------------------------------------------------------------
\* JavaScript values: each kind has its own shape
Undefined == [undefined |-> TRUE]
JSNull == [null |-> TRUE]
Str(s) == [str |-> s]
Num(n) == [num |-> n]
Obj(keys) == [obj |-> keys]
Text(parts) == [text |-> parts]

\* property access: a key the object lacks reads as undefined
Get(o, k) == IF k \in DOMAIN o THEN o[k] ELSE Undefined

Truthy(v) == v # Undefined /\ v # JSNull /\ v # Str("") /\ v # Num(0)

\* a || b
OrElse(a, b) == IF Truthy(a) THEN a ELSE b

\* JSON.stringify drops the keys whose value is undefined; JSON.parse gives
\* back an object with the remaining keys
JSONstringify(o) == [json |-> [k \in {j \in DOMAIN o : o[j] # Undefined} |-> o[k]]]
JSONparse(s) == s.json

\* the searches a visitor submits
Pathname == "/search"
DecimalValue == [s \in {"500000"} |-> 500000]

SearchInputs ==
  { [location |-> Str("Leeds"), listing_type |-> Str("let"),
     min_price |-> Num(250000), max_price |-> Num(1500000), bedrooms |-> Num(2),
     filters |-> Obj({"beds"}), filters_count |-> Num(3),
     source_component |-> Str("search_form")],
    [location |-> Str(""), postcode |-> Str("LS1"), max_price |-> Num(950)],
    [listing_type |-> Str("sale"), min_price |-> Num(0), bedrooms |-> Num(0),
     max_price |-> Num(2000000), source_page |-> Str("/")],
    [min_price |-> Str("500000"), source_component |-> Str("sort_change")] }

storeSearchForTracking(data, t) ==
  LET trackingData ==
        [listing_type |-> OrElse(Get(data, "listing_type"), Str("sale")),
         timestamp |-> Num(t),
         location |-> OrElse(Get(data, "location"),
                             OrElse(Get(data, "postcode"), Str(""))),
         postcode |-> OrElse(Get(data, "postcode"), Str("")),
         min_price |-> Get(data, "min_price"),
         max_price |-> Get(data, "max_price"),
         bedrooms |-> Get(data, "bedrooms"),
         bathrooms |-> Get(data, "bathrooms"),
         property_type |-> Get(data, "property_type"),
         filters |-> OrElse(Get(data, "filters"), Obj({})),
         filters_count |-> OrElse(Get(data, "filters_count"), Num(0)),
         source_page |-> OrElse(Get(data, "source_page"), Str(Pathname)),
         source_component |-> OrElse(Get(data, "source_component"), Str("unknown"))]
  IN <<JSONstringify(trackingData)>>

Number(v) == IF "num" \in DOMAIN v THEN v.num ELSE DecimalValue[v.str]

formatPrice(value) ==
  IF value >= 1000000
  THEN IF value % 1000000 = 0
       THEN <<value \div 1000000, "M">>
       ELSE <<((value + 50000) \div 100000) \div 10, ".",
              ((value + 50000) \div 100000) % 10, "M">>
  ELSE IF value >= 1000
  THEN <<(value + 500) \div 1000, "k">>
  ELSE <<value>>

formatPriceRange(min, max) ==
  LET minVal == IF Truthy(min) THEN Number(min) ELSE 0
      maxVal == IF Truthy(max) THEN Number(max) ELSE 0
  IN IF minVal # 0 /\ maxVal # 0
     THEN Text(<<"GBP", formatPrice(minVal), " - GBP", formatPrice(maxVal)>>)
     ELSE IF minVal # 0 THEN Text(<<"GBP", formatPrice(minVal), "+">>)
     ELSE IF maxVal # 0 THEN Text(<<"Up to GBP", formatPrice(maxVal)>>)
     ELSE Text(<<"Any price">>)

SearchEventData(data, t) ==
  [location |-> OrElse(Get(data, "location"), OrElse(Get(data, "postcode"), Str(""))),
   postcode |-> OrElse(Get(data, "postcode"), Str("")),
   min_price |-> OrElse(Get(data, "min_price"), JSNull),
   max_price |-> OrElse(Get(data, "max_price"), JSNull),
   price_range |-> formatPriceRange(Get(data, "min_price"), Get(data, "max_price")),
   bedrooms |-> OrElse(Get(data, "bedrooms"), JSNull),
   bathrooms |-> OrElse(Get(data, "bathrooms"), JSNull),
   property_type |-> OrElse(Get(data, "property_type"), JSNull),
   listing_type |-> Get(data, "listing_type"),
   filters |-> Get(data, "filters"),
   filters_count |-> Get(data, "filters_count"),
   source_page |-> Get(data, "source_page"),
   source_component |-> Get(data, "source_component"),
   search_timestamp |-> Get(data, "timestamp"),
   tracking_delay_ms |-> Num(t - Get(data, "timestamp").num)]

\* variant: the pending record is left in place after it is read
sendPendingSearchEvent_keepRecord(c, t, stored, available) ==
  IF stored = Null THEN [c |-> c, stored |-> stored, ret |-> 0]
  ELSE LET data == JSONparse(stored[1])
       IN IF t - Get(data, "timestamp").num > STALE_MS
          THEN [c |-> c, stored |-> stored, ret |-> 0]
          ELSE IF available
          THEN [c |-> trackEvent(c, t, "search", SearchEventData(data, t)),
                stored |-> stored, ret |-> 1]
          ELSE [c |-> c, stored |-> stored, ret |-> 0]

\* variant: a record exactly 30 s old is already stale
sendPendingSearchEvent_staleAtLimit(c, t, stored, available) ==
  IF stored = Null THEN [c |-> c, stored |-> stored, ret |-> 0]
  ELSE LET data == JSONparse(stored[1])
       IN IF t - Get(data, "timestamp").num >= STALE_MS
          THEN [c |-> c, stored |-> Null, ret |-> 0]
          ELSE IF available
          THEN [c |-> trackEvent(c, t, "search", SearchEventData(data, t)),
                stored |-> Null, ret |-> 1]
          ELSE [c |-> c, stored |-> Null, ret |-> 0]

\* stored: the sessionStorage item; available: window.StratosTracker is set.
\* Gives the call context, the item left in sessionStorage and the result (1 = true).
sendPendingSearchEvent(c, t, stored, available) ==
  IF stored = Null THEN [c |-> c, stored |-> stored, ret |-> 0]
  ELSE LET data == JSONparse(stored[1])
       IN IF t - Get(data, "timestamp").num > STALE_MS
          THEN [c |-> c, stored |-> Null, ret |-> 0]
          ELSE IF available
          THEN [c |-> trackEvent(c, t, "search", SearchEventData(data, t)),
                stored |-> Null, ret |-> 1]
          ELSE [c |-> c, stored |-> Null, ret |-> 0]

NoSearchInput == [t |-> 0]

StoreSearchForTracking ==
  /\ \E data \in SearchInputs :
       /\ pendingSearch' = storeSearchForTracking(data, now)
       /\ searchInput' = [t |-> now, x |-> data]
       /\ overwritten' = Null
  /\ Finish("storeSearchForTracking", Store, 0, <<>>, FALSE)
  /\ UNCHANGED <<now, page, trackerVars, revoked, scrollHist, enqSent>>

\* storeSearchForTracking called again before the pending record is consumed
StoreSearchOverPending ==
  /\ pendingSearch # Null
  /\ \E data \in SearchInputs :
       /\ pendingSearch' = storeSearchForTracking(data, now)
       /\ searchInput' = [t |-> now, x |-> data]
       /\ overwritten' = <<searchInput>>
  /\ Finish("storeSearchForTracking", Store, 0, <<>>, FALSE)
  /\ UNCHANGED <<now, page, trackerVars, revoked, scrollHist, enqSent>>

SendPendingSearchEvent ==
  /\ LET c == [st |-> Store, tr |-> IF tracker = Null THEN Null ELSE tracker[1],
               out |-> <<>>, clr |-> FALSE, setups |-> 0]
     IN \E r \in {sendPendingSearchEvent(c, now, pendingSearch, tracker # Null)} :
        /\ Finish("sendPendingSearchEvent", r.c.st, r.ret, r.c.out, r.c.clr)
        /\ tracker' = IF tracker = Null THEN Null ELSE <<r.c.tr>>
        /\ pendingSearch' = r.stored
  /\ UNCHANGED <<now, page, tabVars, inflight, searchHist, scrollHist, enqVars, propTracking, blogHandlers, favVars, revoked>>

\* ---- the search results page (its script) ----------------------------------
\* window.location.search as the list of its key=value pairs
UrlQueries ==
  { <<>>,
    <<[k |-> "location", v |-> "Leeds"], [k |-> "beds", v |-> "2"]>>,
    <<[k |-> "q", v |-> "York"], [k |-> "garden", v |-> "false"]>>,
    <<[k |-> "garden", v |-> "false"], [k |-> "location", v |-> ""]>> }

\* URLSearchParams.get: the first value of the key, or null
ParamGet(query, k) ==
  IF \E i \in 1..Len(query) : query[i].k = k
  THEN Str(query[CHOOSE i \in 1..Len(query) :
                   query[i].k = k /\ \A j \in 1..(i - 1) : query[j].k # k].v)
  ELSE JSNull

\* modules/blog.ts: null for an empty query
extractSearchParamsFromUrl(query) ==
  IF query = <<>> THEN Null
  ELSE LET counted == {i \in 1..Len(query) : query[i].v # "" /\ query[i].v # "false"}
       IN <<[listing_type |-> OrElse(ParamGet(query, "listing_type"), Str("sale")),
             location |-> OrElse(ParamGet(query, "location"),
                                 OrElse(ParamGet(query, "q"), Str(""))),
             postcode |-> OrElse(ParamGet(query, "postcode"), Str("")),
             min_price |-> OrElse(ParamGet(query, "min_price"), Undefined),
             max_price |-> OrElse(ParamGet(query, "max_price"), Undefined),
             bedrooms |-> OrElse(ParamGet(query, "beds"),
                                 OrElse(ParamGet(query, "bedrooms"), Undefined)),
             filters |-> Obj({query[i].k : i \in counted}),
             filters_count |-> Num(Cardinality(counted)),
             source_page |-> Str("direct"),
             source_component |-> Str("url_direct")]>>

\* the data of the 'search' event built from the URL parameters p
DirectSearchEventData(p) ==
  [location |-> OrElse(p.location, Str("")),
   postcode |-> OrElse(p.postcode, Str("")),
   min_price |-> OrElse(p.min_price, JSNull),
   max_price |-> OrElse(p.max_price, JSNull),
   bedrooms |-> OrElse(p.bedrooms, JSNull),
   listing_type |-> OrElse(p.listing_type, Str("sale")),
   filters |-> p.filters,
   filters_count |-> p.filters_count,
   results_count |-> Num(0),
   source_page |-> OrElse(p.source_page, Str("direct")),
   source_component |-> Str("url_direct")]

\* variant: the direct-URL event is sent whatever the pending step did
directUrlFallback_always(sent, t, available, query) ==
  LET d == extractSearchParamsFromUrl(query)
  IN IF query # <<>> /\ d # Null /\ d[1].filters_count.num > 0 /\ available
     THEN [sent EXCEPT !.c = trackEvent(sent.c, t, "search", DirectSearchEventData(d[1]))]
     ELSE sent

\* initSearchTracking after 'await sendPendingSearchEvent()': sent is what
\* the pending step gave
directUrlFallback(sent, t, available, query) ==
  LET d == extractSearchParamsFromUrl(query)
  IN IF sent.ret = 0 /\ query # <<>> /\ d # Null /\ d[1].filters_count.num > 0
        /\ available
     THEN [sent EXCEPT !.c = trackEvent(sent.c, t, "search", DirectSearchEventData(d[1]))]
     ELSE sent

\* the page script: the pending search first, the URL of the page otherwise
initSearchTracking(c, t, stored, available, query) ==
  directUrlFallback(sendPendingSearchEvent(c, t, stored, available), t, available, query)

InitSearchTracking ==
  /\ \E query \in UrlQueries :
       LET c == [st |-> Store, tr |-> IF tracker = Null THEN Null ELSE tracker[1],
                 out |-> <<>>, clr |-> FALSE, setups |-> 0]
       IN \E r \in {initSearchTracking(c, now, pendingSearch, tracker # Null, query)} :
          /\ Finish("initSearchTracking", r.c.st, r.ret, r.c.out, r.c.clr)
          /\ tracker' = IF tracker = Null THEN Null ELSE <<r.c.tr>>
          /\ pendingSearch' = r.stored
  /\ UNCHANGED <<now, page, tabVars, inflight, searchHist, scrollHist, enqVars, propTracking, blogHandlers, favVars, revoked>>

TickSearch ==
  Tick({STALE_MS, STALE_MS + 1}, Epoch + MaxSearchGaps * (STALE_MS + 1))


Init ==
  /\ consent \in {"absent", "false", "true"}
  /\ quotaExceeded = FALSE
  /\ lsVisitor = NoId
  /\ lsSession = Null
  /\ tempVisitorId = NoId
  /\ tempSession = Null
  /\ nextId = 1
  /\ now = Epoch
  /\ page = 0
  /\ pendingSearch = Null
  /\ tracker = Null
  /\ propTracking = NoPropTracking
  /\ blogHandlers = <<>>
  /\ favPending = 0
  /\ overtaken = <<>>
  /\ tabs = NoTabs
  /\ race = NoRace
  /\ lastOp = "pageLoad" /\ ret = 0 /\ out = <<>> /\ vids = {} /\ cleared = FALSE
  /\ pageVid = NoId /\ lastVid = NoId
  /\ seenAnon = {} /\ curAnon = {}
  /\ run = NoRun
  /\ revoked = FALSE
  /\ durSent = NoDurSent
  /\ scrollSeq = <<>>
  /\ depthLog = NoDepthLog
  /\ enquiryHandlers = <<>>
  /\ inflight = <<>>
  /\ setups = 0
  /\ enqSent = 0
  /\ searchInput = NoSearchInput
  /\ overwritten = Null

\* ---- the identity & session manager on its own ----------------------------
NextSession ==
  \/ GetVisitorId
  \/ GetSessionId
  \/ InitSession
  \/ ConsentUpdated
  \/ PageLoad
  \/ TickSession

SpecSession == Init /\ [][NextSession]_vars

\* ---- one page with its tracker: consent, initialisation, events ----------
Next ==
  \/ NewTracker
  \/ TrackerInit
  \/ SetConsent
  \/ SetTrackingEnabled
  \/ ConsentUpdated
  \/ TrackPageView
  \/ TrackSessionEnd
  \/ GetSessionId
  \/ GetVisitorId

Spec == Init /\ [][Next]_vars

\* ---- one page with its tracker: favourites, generic events and a consent
\* record rewritten by another tab --------------------------------------------
NextFavourites ==
  \/ NewTracker
  \/ SetTrackingEnabled
  \/ ConsentUpdated
  \/ ConsentChangedElsewhere
  \/ TrackEvent
  \/ ToggleFavourite
  \/ ToggleFavouriteResponse
  \/ GetFavourites

SpecFavourites == Init /\ [][NextFavourites]_vars

\* ---- one page with its tracker: view and read durations -------------------
NextDuration ==
  \/ NewTracker
  \/ SetTrackingEnabled
  \/ ConsentUpdated
  \/ TrackPropertyView
  \/ TrackPropertyDuration
  \/ SetupPropertyDurationTracking
  \/ PropertyDurationHandler
  \/ TrackBlogView
  \/ TrackBlogDuration
  \/ SetupBlogDurationTracking
  \/ BlogDurationHandler
  \/ TickDuration

SpecDuration == Init /\ [][NextDuration]_vars

\* ---- one page with its tracker: durations around the 3 s and 5 s floors ----
TickFloor ==
  Tick({PROPERTY_MIN_SECONDS * 1000 - 1, PROPERTY_MIN_SECONDS * 1000,
        BLOG_MIN_SECONDS * 1000 - 1, BLOG_MIN_SECONDS * 1000},
       Epoch + MaxFloorGaps * BLOG_MIN_SECONDS * 1000)

NextFloor ==
  \/ NewTracker
  \/ SetTrackingEnabled
  \/ TrackPropertyView
  \/ TrackPropertyDuration
  \/ SetupPropertyDurationTracking
  \/ PropertyDurationHandler
  \/ TrackBlogView
  \/ TrackBlogDuration
  \/ TickFloor

SpecFloor == Init /\ [][NextFloor]_vars

\* ---- one article page: scroll depth ----------------------------------------
NextScroll ==
  \/ NewTracker
  \/ SetupBlogDurationTracking
  \/ Scroll

SpecScroll == Init /\ [][NextScroll]_vars

\* ---- one page with an enquiry form -------------------------------------------
NextEnquiry ==
  \/ NewTracker
  \/ SetTrackingEnabled
  \/ ConsentUpdated
  \/ SetupEnquiryFormTracking
  \/ EnquiryFocus

SpecEnquiry == Init /\ [][NextEnquiry]_vars

\* ---- the tracker is initialised again and again while the clock advances ---
TickInit == Tick({1}, Epoch + MaxInitGaps)

NextInit ==
  \/ NewTracker
  \/ TrackerInit
  \/ SetConsent
  \/ ConsentUpdated
  \/ TickInit

SpecInit == Init /\ [][NextInit]_vars

\* ---- two tabs update the session record of the shared storage --------------
NextTabs ==
  \/ \E k \in Tabs : TabGetSessionId(k)
  \/ \E k \in Tabs : TabSaveSession(k)

SpecTabs == Init /\ [][NextTabs]_vars

\* ---- events sent with fetch and the answers of the network ------------------
NextTransport ==
  \/ NewTracker
  \/ ConsentUpdated
  \/ TrackEventAwaited
  \/ FetchSettles
  \/ JsonSettles

SpecTransport == Init /\ [][NextTransport]_vars

\* ---- a search submitted on one page and reported on the next -------------
NextSearch ==
  \/ NewTracker
  \/ SetTrackingEnabled
  \/ ConsentUpdated
  \/ StoreSearchForTracking
  \/ SendPendingSearchEvent
  \/ PageLoad
  \/ TickSearch

SpecSearch == Init /\ [][NextSearch]_vars

\* ---- a search submitted twice before the results page consumes it ----------
NextOverwrite ==
  \/ NewTracker
  \/ StoreSearchForTracking
  \/ StoreSearchOverPending
  \/ SendPendingSearchEvent
  \/ TickSearch

SpecOverwrite == Init /\ [][NextOverwrite]_vars

\* ---- the search results page is opened, from the form or by its URL --------
NextSearchPage ==
  \/ NewTracker
  \/ ConsentUpdated
  \/ StoreSearchForTracking
  \/ InitSearchTracking
  \/ TickSearch

SpecSearchPage == Init /\ [][NextSearchPage]_vars

\* ---- the session module on a page whose storage refuses writes -------------
NextQuota ==
  \/ GetVisitorId
  \/ GetSessionId
  \/ ConsentUpdated
  \/ StorageFills

SpecQuota == Init /\ [][NextQuota]_vars

\* ========================================================================
\* Properties
\* ========================================================================
\* the session record the session manager reads: persisted with consent,
\* in page memory without
StoredSession == IF consent = "true" THEN lsSession ELSE tempSession

\* the public tracking methods of the tracker
TrackingMethods ==
  {"trackPageView", "trackPropertyView", "trackPropertyDuration",
   "setupPropertyDurationTracking", "trackBlogView", "trackBlogDuration",
   "setupBlogDurationTracking", "trackSearch", "trackSessionEnd", "trackEvent",
   "toggleFavourite", "getFavourites"}

\* what the tracking subsystem does on its own after a method armed it
ArmedHandlers == {"propertyDurationHandler", "blogDurationHandler", "toggleFavouriteResponse"}

\* C1 (consent gating): while the consent record does not say analytics=true,
\* no step of the tracking subsystem issues a network request and none writes
\* the persisted visitor id or the persisted session.
C1_ConsentGating ==
  [][(lastOp' \in TrackingMethods \cup ArmedHandlers /\ consent # "true")
       => /\ out' = <<>>
          /\ lsVisitor' = lsVisitor
          /\ lsSession' = lsSession]_vars

\* C2 (facade guard): when tracking is disabled or the tracker's consent flag
\* is false, a public tracking method is a no-op: nothing is built, the session
\* record is neither read nor changed, nothing is handed to the transport.
C2_FacadeGuard ==
  [][(/\ tracker # Null
      /\ lastOp' \in TrackingMethods
      /\ ~(tracker[1].trackingEnabled /\ tracker[1].consentGiven))
       => /\ out' = <<>>
          /\ UNCHANGED <<lsSession, tempSession, lsVisitor, tempVisitorId, nextId>>]_vars

\* C3 (revocation is effective): once a notification with analytics=false has
\* reached the page, the persisted session and visitor id are gone, and until
\* consent is granted again hasConsent() is false and no step sends an event.
C3_RevocationEffective ==
  /\ (lastOp = "consentUpdated" /\ consent = "false" /\ tracker # Null)
       => (lsSession = Null /\ lsVisitor = NoId)
  /\ (revoked /\ tracker # Null) => (~tracker[1].consentGiven /\ out = <<>>)

\* C4 (edge-triggered notifications): a consent notification whose analytics
\* value equals the tracker's current consent flag does nothing: no session is
\* initialised, no page_view is sent, nothing is cleared, the tracker is as it was.
C4_EdgeTriggered ==
  [][(/\ lastOp' = "consentUpdated"
      /\ tracker # Null
      /\ tracker[1].consentGiven = (consent' = "true"))
       => /\ out' = <<>>
          /\ tracker'[1].consentGiven = tracker[1].consentGiven
          /\ tracker'[1].isInitialized = tracker[1].isInitialized
          /\ UNCHANGED <<lsSession, tempSession, lsVisitor, tempVisitorId>>]_vars

\* C5 (session monotonicity): N consecutive getSessionId calls that find a
\* session idle for at most 30 minutes all return its session_id and leave
\* page_views exactly N above the value before the first of them.
C5_SessionMonotonic ==
  run.n >= 1
    => /\ run.same
       /\ StoredSession # Null
       /\ StoredSession[1].session_id = run.sid
       /\ StoredSession[1].page_views = run.pv0 + run.n

C5_Witness == run.n >= 2 /\ lastOp = "getSessionId" /\ ret = run.sid

\* C6 (lazy expiry): a getSessionId call that finds a session idle for more
\* than 30 minutes replaces it and returns a new id; one that finds it idle for
\* 30 minutes or less keeps it; after any call the stored session is the one
\* returned and is not expired.
C6_LazyExpiry ==
  [][lastOp' = "getSessionId"
       => /\ StoredSession' # Null
          /\ StoredSession'[1].session_id = ret'
          /\ now' - StoredSession'[1].last_activity_at.iso <= 30 * 60 * 1000
          /\ StoredSession # Null
               => IF now - StoredSession[1].last_activity_at.iso > 30 * 60 * 1000
                  THEN /\ ret' # StoredSession[1].session_id
                       /\ StoredSession'[1].created_at.iso = now
                  ELSE ret' = StoredSession[1].session_id]_vars

\* a session made by a call that found the page's earlier session expired
C6_Witness ==
  /\ lastOp = "getSessionId"
  /\ now = Epoch + SESSION_TIMEOUT_MS + 1
  /\ consent = "absent"
  /\ tempSession # Null
  /\ tempSession[1].created_at.iso = now
  /\ tempSession[1].session_id = 3

\* C7 (creation counts one view): after a getSessionId call that created a
\* session (none stored, or the stored one expired) the stored page_views is 1.
C7_CreationCountsOne ==
  [][(/\ lastOp' = "getSessionId"
      /\ \/ StoredSession = Null
         \/ now - StoredSession[1].last_activity_at.iso > 30 * 60 * 1000)
       => PageViewsOf(StoredSession') = 1]_vars

\* C8 as stated (visitor id stability): within one page load every visitor id
\* handed out equals the one handed out before it, whatever tracking calls,
\* grants and revocations handled by the tracker came in between.
C8_VisitorIdStable ==
  [][\A v \in vids' : (page' = page /\ pageVid # NoId) => v = pageVid]_vars

\* C8 amended: within one page load every visitor id handed out equals the one
\* handed out before it, across tracking calls and across a grant that finds no
\* persisted id, unless since then the tracking data was cleared, the consent
\* record left analytics=true, or a grant found an id already persisted.
C8_VisitorIdStableUntilReset ==
  [][\A v \in vids' :
       (/\ lastVid # NoId
        /\ ~cleared'
        /\ ~(consent = "true" /\ consent' # "true")
        /\ ~(consent # "true" /\ consent' = "true" /\ lsVisitor # NoId))
         => v = lastVid]_vars

\* an id handed out before the grant is the one persisted and returned after it
C8_Witness ==
  /\ lastOp = "getVisitorId"
  /\ consent = "true"
  /\ ret \in curAnon
  /\ lsVisitor = ret

\* C9 (consent-gated persistence): the persisted visitor id and session are
\* written only while the consent record says analytics=true; with consent the
\* id getVisitorId returns is the persisted one and a later call returns it
\* again; ids handed out without consent on different page loads differ.
C9_ConsentGatedPersistence ==
  /\ [][/\ (lsVisitor' # lsVisitor /\ lsVisitor' # NoId) => consent' = "true"
        /\ (lsSession' # lsSession /\ lsSession' # Null) => consent' = "true"
        /\ (lastOp' = "getVisitorId" /\ consent = "true" /\ lsVisitor # NoId)
             => ret' = lsVisitor]_vars
  /\ []((lastOp = "getVisitorId" /\ consent = "true") => lsVisitor = ret)
  /\ [](seenAnon \cap curAnon = {})

\* anonymous ids from two page loads, and a persisted one
C9_Witness ==
  /\ seenAnon # {}
  /\ curAnon # {}
  /\ lsVisitor # NoId
  /\ lsSession # Null

\* a field of the submitted search that is present and not empty or zero
Given(x, k) == k \in DOMAIN x /\ x[k] \notin {Str(""), Num(0)}

GivenOr(x, k, default) == IF Given(x, k) THEN x[k] ELSE default

\* the event data d reports the search x submitted at t0, sent at t
DerivedFrom(d, x, t0, t) ==
  /\ d.location = GivenOr(x, "location", GivenOr(x, "postcode", Str("")))
  /\ d.postcode = GivenOr(x, "postcode", Str(""))
  /\ d.min_price = GivenOr(x, "min_price", JSNull)
  /\ d.max_price = GivenOr(x, "max_price", JSNull)
  /\ d.bedrooms = GivenOr(x, "bedrooms", JSNull)
  /\ d.listing_type = GivenOr(x, "listing_type", Str("sale"))
  /\ d.filters_count = GivenOr(x, "filters_count", Num(0))
  /\ d.source_component = GivenOr(x, "source_component", Str("unknown"))
  /\ (d.price_range = Text(<<"Any price">>))
       <=> (~Given(x, "min_price") /\ ~Given(x, "max_price"))
  /\ d.search_timestamp = Num(t0)
  /\ d.tracking_delay_ms = Num(t - t0)

\* the network calls o are exactly one 'search' event for the search x
OneSearchEvent(o, x, t0, t) ==
  /\ Len(o) = 1
  /\ o[1].payload.event_type = "search"
  /\ DerivedFrom(o[1].payload.event_data, x, t0, t)

\* C10 as stated (search round trip): sendPendingSearchEvent called within 30 s
\* of storeSearchForTracking(X) sends exactly one 'search' event derived from
\* X; a call that finds no pending record sends none, and every call leaves
\* no pending record.
C10_SearchRoundTrip ==
  /\ [][lastOp' = "sendPendingSearchEvent"
          => IF pendingSearch # Null /\ now - searchInput.t <= 30000
             THEN OneSearchEvent(out', searchInput.x, searchInput.t, now)
             ELSE out' = <<>>]_vars
  /\ [](lastOp = "sendPendingSearchEvent" => pendingSearch = Null)

\* C10 amended: the one 'search' event is sent when the page has a tracker with
\* tracking enabled and its consent flag set; with no tracker on the page, with
\* tracking disabled or without consent the call sends nothing.  Either way
\* the record is consumed, so a second call sends none.
C10_SearchRoundTripWithTracker ==
  /\ [][lastOp' = "sendPendingSearchEvent"
          => IF /\ pendingSearch # Null /\ now - searchInput.t <= 30000
                /\ tracker # Null
                /\ tracker[1].trackingEnabled /\ tracker[1].consentGiven
             THEN OneSearchEvent(out', searchInput.x, searchInput.t, now)
             ELSE out' = <<>>]_vars
  /\ [](lastOp = "sendPendingSearchEvent" => pendingSearch = Null)

\* a search stored on one page is reported on the next, 30 s later
C10_Witness ==
  /\ lastOp = "sendPendingSearchEvent"
  /\ ret = 1
  /\ Len(out) = 1
  /\ page = 1
  /\ searchInput.t = Epoch
  /\ now = Epoch + STALE_MS

\* C11 (staleness rejection): sendPendingSearchEvent that finds a pending record
\* older than 30 s sends nothing and returns false; a record at most 30 s old
\* is not rejected: with a tracker on the page the call returns true, and the
\* event goes out when that tracker may track.
C11_StalenessRejection ==
  [][(lastOp' = "sendPendingSearchEvent" /\ pendingSearch # Null)
       => IF now - searchInput.t > 30000
          THEN out' = <<>> /\ ret' = 0
          ELSE /\ tracker # Null => ret' = 1
               /\ (/\ tracker # Null
                   /\ tracker[1].trackingEnabled /\ tracker[1].consentGiven)
                    => Len(out') = 1]_vars

\* a tracker that may track is on the page, the search is 30 s + 1 ms old and
\* the call has answered false without sending
C11_Witness ==
  /\ lastOp = "sendPendingSearchEvent"
  /\ ret = 0
  /\ out = <<>>
  /\ pendingSearch = Null
  /\ searchInput.t = Epoch
  /\ now = Epoch + STALE_MS + 1
  /\ tracker # Null
  /\ tracker[1].trackingEnabled /\ tracker[1].consentGiven

\* C12 (duration is tracked once): after setupPropertyDurationTracking or
\* setupBlogDurationTracking has armed the listeners, the page-exit events
\* (beforeunload, pagehide, tab hidden) send at most one duration event between
\* them; every later occurrence sends nothing.
C12_DurationTrackedOnce ==
  /\ durSent.property <= 1
  /\ durSent.blog <= 1

\* C13 (duration floor): a property duration call d whole seconds after the
\* view started sends nothing when d < 3 and exactly one 'property_view' event
\* with view_duration_seconds = d when d >= 3; a blog duration call sends
\* nothing when d < 5 and exactly one 'blog_read_time' event with
\* read_duration_seconds = d when d >= 5.
C13_DurationFloor ==
  [][/\ (/\ tracker # Null
         /\ tracker[1].propertyViewStartTime # 0
         /\ \/ lastOp' = "propertyDurationHandler"
            \/ lastOp' = "trackPropertyDuration" /\ tracker[1].trackingEnabled)
          => LET d == (now - tracker[1].propertyViewStartTime) \div 1000
             IN IF d < 3 THEN out' = <<>>
                ELSE /\ Len(out') = 1
                     /\ out'[1].payload.event_type = "property_view"
                     /\ out'[1].payload.event_data.view_duration_seconds = d
     /\ (/\ tracker # Null
         /\ tracker[1].blogViewStartTime # 0
         /\ lastOp' = "trackBlogDuration" /\ tracker[1].trackingEnabled)
          => LET d == (now - tracker[1].blogViewStartTime) \div 1000
             IN IF d < 5 THEN out' = <<>>
                ELSE /\ Len(out') = 1
                     /\ out'[1].payload.event_type = "blog_read_time"
                     /\ out'[1].payload.event_data.read_duration_seconds = d]_vars

\* a view of 4.999 s is reported as 4 seconds
C13_Witness ==
  /\ lastOp = "trackPropertyDuration"
  /\ Len(out) = 1
  /\ out[1].payload.event_data.view_duration_seconds = 4

\* the highest milestone at or below a position (0: none), and the furthest
\* position of a sequence of observations
HighestMilestone(p) ==
  IF p >= 100 THEN 100 ELSE IF p >= 75 THEN 75 ELSE IF p >= 50 THEN 50
  ELSE IF p >= 25 THEN 25 ELSE 0

Furthest(seq) ==
  IF seq = <<>> THEN 0
  ELSE CHOOSE p \in {seq[i] : i \in 1..Len(seq)} : \A i \in 1..Len(seq) : seq[i] <= p

\* the scroll_depth values of the events in o
DepthsOf(o) == [i \in 1..Len(o) |-> o[i].payload.event_data.scroll_depth]

\* C14 (scroll milestones): an observed scroll position that passes a milestone
\* of {25, 50, 75, 100} not reached before fires exactly one event, reporting
\* the highest milestone reached; any other position fires nothing.  After
\* 10, 30, 60, 40 the position 100 fires one event with scroll_depth 100.
C14_ScrollMilestones ==
  [][lastOp' = "scroll"
       => LET p == scrollSeq'[Len(scrollSeq')]
          IN IF HighestMilestone(p) > HighestMilestone(Furthest(scrollSeq))
             THEN DepthsOf(out') = <<HighestMilestone(p)>>
             ELSE out' = <<>>]_vars

\* C15 (enquiry started once): whatever fields of the form are focused, in
\* whatever order and however often, and however many times
\* setupEnquiryFormTracking was called, 'enquiry_started' is sent at most once
\* for the form.
C15_EnquiryStartedOnce == enqSent <= 1

\* C16 (sendEvent is at-most-once and never fails the caller): every sendEvent
\* call issues at most one request, and its promise is never rejected: once
\* the call is over (the fetch rejected, or the body of an ok or non-2xx
\* response was parsed or could not be parsed) the promise is resolved.
C16_SendEventAtMostOnce ==
  \A i \in 1..Len(inflight) :
    /\ inflight[i].requests <= 1
    /\ inflight[i].promise # "rejected"
    /\ inflight[i].stage = "done" => inflight[i].promise = "resolved"

\* one call ended by a rejected fetch, another by a non-2xx answer whose body
\* could not be parsed
C16_Witness ==
  /\ Len(inflight) = 2
  /\ inflight[1].stage = "done" /\ inflight[1].response = "rejected"
  /\ inflight[2].stage = "done" /\ inflight[2].response = "notOk"
  /\ inflight[2].body = "unparseable"

\* C17 (init is idempotent): a step that starts with the tracker initialised
\* and revokes nothing (an init call, a setConsent call, a consent
\* notification, at any later time) keeps pageLoadTime, sessionStartTime and
\* the initialised flag and makes no call of setupAutomaticTracking; and an
\* init call made while consent is not given leaves the tracker uninitialised.
C17_InitIdempotent ==
  [][(tracker # Null /\ tracker' # Null) =>
       /\ (tracker[1].isInitialized /\ ~cleared') =>
            /\ tracker'[1].isInitialized
            /\ tracker'[1].pageLoadTime = tracker[1].pageLoadTime
            /\ tracker'[1].sessionStartTime = tracker[1].sessionStartTime
            /\ setups' = 0
       /\ (lastOp' = "init" /\ ~tracker[1].consentGiven) =>
            ~tracker'[1].isInitialized]_vars

\* init has just been called on a tracker initialised at an earlier time
C17_Witness ==
  /\ tracker # Null
  /\ lastOp = "init"
  /\ tracker[1].isInitialized
  /\ tracker[1].pageLoadTime < now
  /\ setups = 0

\* C18 (session_id changes exactly when expiry or absence is detected): the
\* record of the previous session read of the page is the in-memory session.
\* While it exists, the next getSessionId returns another session_id if and
\* only if that record has been idle for more than 30 minutes; in particular
\* not after a consent grant alone.
C18_SessionIdChangesOnExpiryOnly ==
  [][(lastOp' = "getSessionId" /\ tempSession # Null) =>
       ((ret' # tempSession[1].session_id)
          <=> (now - getTime(tempSession[1].last_activity_at) > SESSION_TIMEOUT_MS))]_vars

\* C19 (page_views never decreases within a session): as long as a stored
\* session record, persisted or in memory, keeps its session_id from one
\* state to the next, its page_views does not decrease, whatever session read
\* or tracking call made the step.
C19_PageViewsMonotonic ==
  [][/\ (lsSession # Null /\ lsSession' # Null
           /\ lsSession'[1].session_id = lsSession[1].session_id)
          => lsSession'[1].page_views >= lsSession[1].page_views
     /\ (tempSession # Null /\ tempSession' # Null
           /\ tempSession'[1].session_id = tempSession[1].session_id)
          => tempSession'[1].page_views >= tempSession[1].page_views]_vars

\* C20 (setConsent mirrors the listener): in every reachable state of a page
\* with a tracker, and for either value b, setConsent(b) and the notification
\* 'consent updated' with analytics = b leave the same consent flag and the
\* same initialised flag, both clear the tracking data or both keep it, and
\* the consent flag they leave is b, the value carried by the most recent of
\* them.
C20_SetConsentMirrorsListener ==
  tracker # Null =>
    \A b \in BOOLEAN :
      LET c == [Ctx EXCEPT !.st.consent = ConsentValue(b)]
          viaCall == setConsent(c, now, b)
          viaEvent == setupConsentListener(c, now, b)
      IN /\ viaCall.tr.consentGiven = viaEvent.tr.consentGiven
         /\ viaCall.tr.isInitialized = viaEvent.tr.isInitialized
         /\ viaCall.clr = viaEvent.clr
         /\ viaCall.tr.consentGiven = b
         /\ viaEvent.tr.consentGiven = b

\* C21 (event ordering): events are handed to the transport in the order of
\* the actions that trigger them: when the answer to a toggleFavourite call
\* produces its analytics event, no event of an action triggered after that
\* call has been handed over before it.
C21_EventOrdering ==
  [][(lastOp' = "toggleFavouriteResponse" /\ out' # <<>>) => ~overtaken[ret']]_vars

\* C22 (two-tab race on the session record): while tabs update one existing,
\* unexpired session under consent, every call returns the session_id of that
\* session and the stored record keeps it; the stored page_views counts at
\* least one and at most all of the N calls made, and (witness) an
\* interleaving loses an update: page_views < page_views_before + N.
C22_LostUpdateOnly ==
  race.n > 0 =>
    /\ race.same
    /\ lsSession # Null
    /\ lsSession[1].session_id = race.sid
    /\ lsSession[1].page_views >= race.pv0 + 1
    /\ lsSession[1].page_views <= race.pv0 + race.n

\* two calls on the session are over and only one of them is counted
C22_Witness ==
  /\ race.n = 2
  /\ \A k \in Tabs : tabs[k].pc = "idle"
  /\ lsSession # Null
  /\ lsSession[1].page_views < race.pv0 + race.n

\* C23 (the consent record is polled before each action): a tracking call
\* sends an event only if the persisted consent record says analytics = true
\* at the moment of the call, also when the record was changed without a
\* notification reaching this page.
C23_ConsentRecordPolled ==
  [][(lastOp' = "trackEvent" /\ out' # <<>>) => consent = "true"]_vars

\* C24 (one pending search record, the newest wins): after
\* storeSearchForTracking(X) and then storeSearchForTracking(Y) with no
\* consumption in between, the storage holds the one record of Y; the next
\* sendPendingSearchEvent sends at most one event, which reports Y and not X,
\* and leaves no record.
C24_NewestSearchWins ==
  /\ []((lastOp = "storeSearchForTracking" /\ overwritten # Null)
          => pendingSearch = storeSearchForTracking(searchInput.x, searchInput.t))
  /\ [][(lastOp' = "sendPendingSearchEvent" /\ overwritten # Null)
          => /\ Len(out') <= 1
             /\ pendingSearch' = Null
             /\ out' # <<>> =>
                  /\ OneSearchEvent(out', searchInput.x, searchInput.t, now)
                  /\ overwritten[1] # searchInput =>
                       ~DerivedFrom(out'[1].payload.event_data,
                                    overwritten[1].x, overwritten[1].t, now)]_vars

\* the event of the second of two different searches stored at the same time
\* has been sent
C24_Witness ==
  /\ lastOp = "sendPendingSearchEvent"
  /\ Len(out) = 1
  /\ overwritten # Null
  /\ overwritten[1].x # searchInput.x
  /\ overwritten[1].t = searchInput.t
  /\ pendingSearch = Null

\* the 'search' events among the network calls o that come from the page URL
DirectEvents(o) ==
  {i \in 1..Len(o) : /\ o[i].payload.event_type = "search"
                     /\ o[i].payload.event_data.source_component = Str("url_direct")}

\* C25 (direct-URL fallback): the script of the search results page sends at
\* most one 'search' event per load, and it sends the event built from the
\* page URL only when the store-and-forward step found nothing to forward: no
\* pending record, or a stale one.
C25_DirectUrlFallback ==
  [][lastOp' = "initSearchTracking" =>
       /\ Len(out') <= 1
       /\ DirectEvents(out') # {} =>
            (pendingSearch = Null \/ now - searchInput.t > STALE_MS)]_vars

\* a page opened by its URL, a stale record pending: the direct event is sent
C25_Witness ==
  /\ lastOp = "initSearchTracking"
  /\ DirectEvents(out) = {1}
  /\ searchInput # NoSearchInput
  /\ now - searchInput.t > STALE_MS
  /\ pendingSearch = Null

\* C26 (storage failure degrades to memory): while writes to the persisted
\* storage fail and the consent record says analytics = true, two consecutive
\* getSessionId calls (no time passes) return the same session_id, and two
\* consecutive getVisitorId calls return the same visitor id.
C26_StorageFailureFallback ==
  [][(quotaExceeded /\ consent = "true" /\ lastOp' = lastOp
        /\ lastOp \in {"getSessionId", "getVisitorId"})
       => ret' = ret]_vars

\* C27 (scroll milestones fire at most once): over one page life, whatever
\* the scroll positions and however many times setupBlogDurationTracking was
\* called, each milestone of {25, 50, 75, 100} has produced at most one
\* 'blog_scroll_depth' event, and a scroll position not above the furthest
\* position so far produces no event.
C27_MilestonesAtMostOnce ==
  /\ [](\A ms \in Milestones : depthLog.sent[ms] <= 1)
  /\ [][(lastOp' = "scroll" /\ scrollSeq'[Len(scrollSeq')] <= depthLog.max)
          => out' = <<>>]_vars

\* C28 (initialized implies consent): in every state reached through the
\* constructor, init, setConsent and consent notifications, a tracker whose
\* isInitialized flag is true has its consentGiven flag true.
C28_InitializedImpliesConsent ==
  tracker # Null => (tracker[1].isInitialized => tracker[1].consentGiven)

\* a tracker that init had initialised and that lost consent afterwards
C28_Witness ==
  /\ tracker # Null
  /\ tracker[1].pageLoadTime # 0
  /\ ~tracker[1].consentGiven
  /\ ~tracker[1].isInitialized
  /\ cleared

\* C29 (visitor id promoted on grant), as stated: in a page that obtained
\* visitor ids in memory while consent was absent and where no visitor id is
\* persisted, the first getVisitorId made once the consent record says
\* analytics=true returns an id the page already handed out, and persists it.
C29_VisitorIdPromoted ==
  [][(consent' = "true" /\ vids' # {} /\ lsVisitor = NoId /\ curAnon # {})
       => (vids' \subseteq curAnon /\ lsVisitor' \in curAnon)]_vars

\* C29 (visitor id promoted on grant), amended: the same, for an in-memory id
\* that clearAllTrackingData has not erased since it was handed out; the id
\* returned and persisted is then exactly that id.
C29_VisitorIdPromotedUnlessCleared ==
  [][(consent' = "true" /\ vids' # {} /\ lsVisitor = NoId
        /\ tempVisitorId # NoId /\ tempVisitorId \in curAnon)
       => (vids' = {tempVisitorId} /\ lsVisitor' = tempVisitorId)]_vars

\* an id handed out without consent has just been returned under consent and
\* is now the persisted one
C29_Witness ==
  /\ consent = "true"
  /\ lastOp \in {"getVisitorId", "consentUpdated"}
  /\ vids # {}
  /\ vids \subseteq curAnon
  /\ lsVisitor \in vids
  /\ tempVisitorId = lsVisitor

\* C30 (the result of sendPendingSearchEvent reflects dispatch): the call
\* returns true only if a 'search' event was handed to the network; when
\* nothing is sent it returns false; and a record that existed before the call
\* is gone from sessionStorage when it returns.
C30_ResultReflectsDispatch ==
  [][lastOp' = "sendPendingSearchEvent"
       => /\ (ret' = 1) <=>
               (\E i \in 1..Len(out') : out'[i].payload.event_type = "search")
          /\ pendingSearch' = Null]_vars

====
